---- MODULE Spec2Model ----
(***************************************************************************)
(* Shard allocation (open_lm/file_utils.py): _single_epoch_string, the     *)
(* diagnostics it runs, and log_num_checkpoints, the checkpoint-count      *)
(* simulator that drives it.                                               *)
(*                                                                         *)
(* Python lists are modelled as sequences: source i of the code (0-based)  *)
(* is index i+1 here; cursors keep the code's 0-based values, so the       *)
(* manifest entry at cursor c is manifest[c + 1].                          *)
(***************************************************************************)
EXTENDS Integers, Sequences, FiniteSets, TLC

\* ---------------------------------------------------------------- bounds
MaxShards == 4      \* longest manifest
MaxSamples == 3     \* largest train_num_samples
MaxCalls == 3       \* allocation calls made by the training loop
MaxSteps == 2       \* largest total_steps of a simulator run

SampleCounts == {1, 3}      \* sample counts of a shard
WorldSizes == {1, 2}
WorkerCounts == {1, 2}
StartCursors == {0, 1}
BatchSizes == {1, 2}
SeqLens == {2}
EpochCounts == {1, 2}

\* ---------------------------------------------------------------- helpers
RECURSIVE SumSeq(_)
SumSeq(s) == IF s = <<>> THEN 0 ELSE s[1] + SumSeq(Tail(s))

MinOf(S) == CHOOSE x \in S : \A y \in S : x <= y
MaxOf(S) == CHOOSE x \in S : \A y \in S : x >= y

\* lst[:k] of Python for k >= 0: a k beyond the end yields the whole list
Take(lst, k) == SubSeq(lst, 1, IF k < Len(lst) THEN k ELSE Len(lst))

\* int(np.ceil(a / b)) for integers a >= 0, b > 0
CeilDiv(a, b) == (a + b - 1) \div b

\* ---------------------------------------------------------------- manifests
\* A manifest record carries its count under num_sequences or num_chunks.
\* Shard names: distinct per position, or one name shared by two positions.
IdSchemes == {"unique", "paired"}
ShardId(k, scheme) == IF scheme = "unique" THEN k ELSE (k + 1) \div 2

Entry(k, n, scheme) ==
    IF k % 2 = 1 THEN [shard |-> ShardId(k, scheme), num_sequences |-> n]
                 ELSE [shard |-> ShardId(k, scheme), num_chunks |-> n]

\* the try / except KeyError of the code
NumSamples(m) ==
    IF "num_sequences" \in DOMAIN m THEN m.num_sequences ELSE m.num_chunks

Manifest(sizes, scheme) ==
    [k \in 1..Len(sizes) |-> Entry(k, sizes[k], scheme)]

SizeSeqs(L) == UNION {[1..l -> SampleCounts] : l \in 0..L}
UniformSizeSeqs(L) == {[k \in 1..l |-> n] : l \in 0..L, n \in SampleCounts}

\* the manifests of a run: one source of any shape, or two sources, each
\* with shards of one size
ManifestSets(schemes) ==
    {<<Manifest(sz, sc)>> : sz \in SizeSeqs(MaxShards), sc \in schemes} \cup
    {<<Manifest(u, "unique"), Manifest(v, "unique")>> :
        u \in UniformSizeSeqs(MaxShards), v \in UniformSizeSeqs(MaxShards)}

VARIABLES
    manifests,                  \* get_metadata_file(path), per source
    args,                       \* the configuration of the run
    total_steps,                \* log_num_checkpoints' parameter
    starting_points,            \* the caller's cursor list, passed to the call
                                \* (in log_num_checkpoints: the list of line 253)
    pc,                         \* position in the caller / in the call
    i,                          \* loop index of the for loop at line 448
    weights,
    needed_samples_per_source,
    next_shard_per_source,
    shard_list_per_source,
    num_samples_per_source,
    accumulated,                \* shard lists as they were before truncation
    result,                     \* the returned triple
    error,                      \* the exception that ended the call
    warnings,                   \* logging.warning calls made
    history,                    \* completed calls, in order
    steps_done,
    tokens_seen,
    checkpoints_made

vars == <<manifests, args, total_steps, starting_points, pc, i, weights,
          needed_samples_per_source, next_shard_per_source,
          shard_list_per_source, num_samples_per_source, accumulated,
          result, error, warnings, history, steps_done, tokens_seen,
          checkpoints_made>>

num_sources == Len(manifests)
Sources == 1..num_sources
total_num_workers == args.workers * args.world_size

NoResult == [shard_strings |-> <<>>, num_samples |-> <<>>, next_shard |-> <<>>]

\* ---------------------------------------------------------------- diagnostics
ShardSizes(data) == [k \in 1..Len(data) |-> NumSamples(data[k])]

RECURSIVE Insert(_, _)
Insert(x, s) ==
    IF s = <<>> THEN <<x>>
    ELSE IF x <= s[1] THEN <<x>> \o s
    ELSE <<s[1]>> \o Insert(x, Tail(s))

RECURSIVE Sorted(_)
Sorted(s) == IF s = <<>> THEN <<>> ELSE Insert(s[1], Sorted(Tail(s)))

\* twice np.median(s) of a non-empty list (the mean of the two middle values
\* of an even-length list need not be an integer)
Median2(s) ==
    LET t == Sorted(s)
        n == Len(t)
    IN  IF n % 2 = 1 THEN 2 * t[(n + 1) \div 2]
        ELSE t[n \div 2] + t[n \div 2 + 1]

\* count_small_shards(path), ratio 0.9: sizes < 0.9 * max(sizes), that is
\* 10 * size < 9 * max.  max() of an empty array raises ValueError.
count_small_shards_raises(data) == Len(data) = 0

\* (variant: a shard exactly at ratio * max is counted too)
count_small_shards_at_ratio(data) ==
    LET sz == ShardSizes(data)
        mx == MaxOf({sz[k] : k \in 1..Len(sz)})
    IN  Cardinality({k \in 1..Len(sz) : 10 * sz[k] <= 9 * mx})

count_small_shards(data) ==
    LET sz == ShardSizes(data)
        mx == MaxOf({sz[k] : k \in 1..Len(sz)})
    IN  Cardinality({k \in 1..Len(sz) : 10 * sz[k] < 9 * mx})

\* are_sources_imbalanced_with_each_other(paths), ratio 2.  np.median of an
\* empty list is nan (a RuntimeWarning, no exception); with at most two
\* sources every comparison that involves the nan is False.
are_sources_imbalanced_with_each_other(ms) ==
    IF \E k \in 1..Len(ms) : Len(ms[k]) = 0 THEN FALSE
    ELSE LET med == {Median2(ShardSizes(ms[k])) : k \in 1..Len(ms)}
         IN  MaxOf(med) > 2 * MinOf(med)

\* ---------------------------------------------------------------- allocation
\* (variant: one shard fewer than the workers is accepted)
enough_shards_but_one(shard_lists, min_shards_needed) ==
    \A k \in 1..Len(shard_lists) :
        Len(shard_lists[k]) >= min_shards_needed - 1

enough_shards(shard_lists, min_shards_needed) ==
    \A k \in 1..Len(shard_lists) : Len(shard_lists[k]) >= min_shards_needed

enough_samples(nums, needed) ==
    \A k \in 1..Len(nums) : SumSeq(nums[k]) >= needed[k]

\* "<root>/<id>.tar" for one shard, "<root>/{<id1>,<id2>,...}.tar" otherwise
ShardString(lst) ==
    IF Len(lst) = 1 THEN [form |-> "single", ids |-> lst]
    ELSE [form |-> "brace", ids |-> lst]

\* what the caller and the log see of a call: the cursors passed, how it
\* ended, the shards appended before truncation and the returned value
CallRecord(err, res) ==
    [start |-> starting_points, error |-> err,
     offered |-> shard_list_per_source, result |-> res]

\* A call of get_string_for_epoch(..., starting_points, ...): a new frame.
EnterCall ==
    /\ pc' = "diag"
    /\ i' = 0
    /\ weights' = <<>>
    /\ needed_samples_per_source' = <<>>
    /\ next_shard_per_source' = <<>>
    /\ shard_list_per_source' = <<>>
    /\ num_samples_per_source' = <<>>
    /\ accumulated' = <<>>
    /\ result' = NoResult
    /\ error' = "none"
    /\ warnings' = {}

Raise(err) ==
    /\ pc' = "raised"
    /\ error' = err
    /\ history' = Append(history, CallRecord(err, NoResult))

\* lines 406-428
SmallShardWarnings(upto) ==
    {<<"small_shards", k>> : k \in {j \in 1..upto : count_small_shards(manifests[j]) > 0}}

Diagnose ==
    /\ pc = "diag"
    /\ LET multi == IF num_sources > 1
                    THEN {<<"multiple_sources", 0>>} \cup
                         (IF are_sources_imbalanced_with_each_other(manifests)
                          THEN {<<"imbalanced", 0>>} ELSE {})
                    ELSE {}
           empty == {k \in Sources : count_small_shards_raises(manifests[k])}
       IN  IF empty # {}
           THEN /\ warnings' = multi \cup SmallShardWarnings(MinOf(empty) - 1)
                /\ Raise("ValueError")
           ELSE /\ warnings' = multi \cup SmallShardWarnings(num_sources)
                /\ pc' = "setup"
                /\ UNCHANGED <<error, history>>
    /\ UNCHANGED <<manifests, args, total_steps, starting_points, i, weights,
                   needed_samples_per_source, next_shard_per_source,
                   shard_list_per_source, num_samples_per_source, accumulated,
                   result, steps_done, tokens_seen, checkpoints_made>>

\* lines 430-443
UniformWeights(n) == [k \in 1..n |-> 1]

\* (variant: the quota is rounded down)
QuotaFloor(w, num_samples) ==
    [k \in 1..Len(w) |-> (w[k] * num_samples) \div SumSeq(w)]

Quota(w, num_samples) ==
    [k \in 1..Len(w) |-> CeilDiv(w[k] * num_samples, SumSeq(w))]

EmptyLists(n) == [k \in 1..n |-> <<>>]

\* (variant: every call starts from the first shard)
InitialCursorsFromZero(start) == [k \in 1..Len(start) |-> 0]

\* (variant: the cursors of the last successful call are kept between calls
\* and used in place of the argument)
InitialCursorsAmbient(start) ==
    IF history # <<>> /\ history[Len(history)].error = "none"
    THEN history[Len(history)].result.next_shard
    ELSE start

\* copy.deepcopy(starting_shard_per_source)
InitialCursors(start) == start

Setup ==
    /\ pc = "setup"
    /\ LET w == IF args.train_data_mix_weights.given
                THEN args.train_data_mix_weights.w
                ELSE UniformWeights(num_sources)
       IN  /\ weights' = w
           /\ IF Len(w) # num_sources
              THEN /\ Raise("AssertionError")
                   /\ UNCHANGED <<needed_samples_per_source,
                                  next_shard_per_source, shard_list_per_source,
                                  num_samples_per_source>>
              ELSE /\ needed_samples_per_source' =
                          Quota(w, args.train_num_samples)
                   /\ next_shard_per_source' = InitialCursors(starting_points)
                   /\ shard_list_per_source' = EmptyLists(num_sources)
                   /\ num_samples_per_source' = EmptyLists(num_sources)
                   /\ pc' = "loop"
                   /\ UNCHANGED <<error, history>>
    /\ UNCHANGED <<manifests, args, total_steps, starting_points, i,
                   accumulated, result, warnings, steps_done, tokens_seen,
                   checkpoints_made>>

\* (variant: either condition ends the loop)
StopConditionEither ==
    \/ enough_shards(shard_list_per_source, total_num_workers)
    \/ enough_samples(num_samples_per_source, needed_samples_per_source)

\* the while condition at lines 444-446
StopCondition ==
    /\ enough_shards(shard_list_per_source, total_num_workers)
    /\ enough_samples(num_samples_per_source, needed_samples_per_source)

LoopTest ==
    /\ pc = "loop"
    /\ IF StopCondition
       THEN pc' = "truncate" /\ i' = i
       ELSE pc' = "append" /\ i' = 1
    /\ UNCHANGED <<manifests, args, total_steps, starting_points, weights,
                   needed_samples_per_source, next_shard_per_source,
                   shard_list_per_source, num_samples_per_source, accumulated,
                   result, error, warnings, history, steps_done, tokens_seen,
                   checkpoints_made>>

\* (variant: the last shard of a manifest cannot be taken)
OutOfRangeEarly(data, c) == c + 1 >= Len(data)

\* manifests[i][c] raises IndexError when c is not a position of the list
OutOfRange(data, c) == c >= Len(data)

\* line 439: copy.deepcopy gives the call a list of its own, so what it
\* writes to next_shard_per_source does not reach the list of the caller
\* (variant: no copy, both names denote one list)
CallerListShared(next) == next

CallerList(next) == starting_points

\* one iteration of the for loop at lines 448-459
AppendShard ==
    /\ pc = "append"
    /\ LET c == next_shard_per_source[i]
       IN  IF OutOfRange(manifests[i], c)
           THEN /\ Raise("IndexError")
                /\ UNCHANGED <<i, next_shard_per_source, shard_list_per_source,
                               num_samples_per_source, starting_points>>
           ELSE /\ shard_list_per_source' =
                      [shard_list_per_source EXCEPT
                          ![i] = Append(@, manifests[i][c + 1].shard)]
                /\ num_samples_per_source' =
                      [num_samples_per_source EXCEPT
                          ![i] = Append(@, NumSamples(manifests[i][c + 1]))]
                /\ next_shard_per_source' =
                      [next_shard_per_source EXCEPT ![i] = c + 1]
                /\ starting_points' = CallerList(next_shard_per_source')
                /\ IF i = num_sources
                   THEN pc' = "loop" /\ i' = i
                   ELSE pc' = "append" /\ i' = i + 1
                /\ UNCHANGED <<error, history>>
    /\ UNCHANGED <<manifests, args, total_steps, weights,
                   needed_samples_per_source, accumulated, result, warnings,
                   steps_done, tokens_seen, checkpoints_made>>

\* lines 471-500
\* (variant: rounds up instead of down)
NumMultiplesUp(len, workers) == (len + workers - 1) \div workers

NumMultiples(len, workers) == len \div workers

\* (variant: line 481 left out, the counts are not truncated)
KeptSamplesAll(nums, keep) == nums

KeptSamples(nums, keep) == Take(nums, keep)

\* (variant: line 484 left out, the cursor stays where the loop left it)
CommittedCursorAdvanced(k, kept) == next_shard_per_source[k]

CommittedCursor(k, kept) == starting_points[k] + Len(kept[k])

\* (variant: a source keeps only the worker multiples its own quota needs)
KeepCountToQuota(k) ==
    LET all == NumMultiples(Len(shard_list_per_source[k]), total_num_workers)
        enough(m) ==
            SumSeq(Take(num_samples_per_source[k], m * total_num_workers))
                >= needed_samples_per_source[k]
    IN  IF \E m \in 1..all : enough(m)
        THEN total_num_workers * MinOf({m \in 1..all : enough(m)})
        ELSE total_num_workers * all

\* lines 478-481: the length the lists of source k are cut to
KeepCount(k) ==
    NumMultiples(Len(shard_list_per_source[k]), total_num_workers)
        * total_num_workers

Truncate ==
    /\ pc = "truncate"
    /\ LET keep == [k \in Sources |-> KeepCount(k)]
           kept == [k \in Sources |-> Take(shard_list_per_source[k], keep[k])]
           nums == [k \in Sources |->
                      KeptSamples(num_samples_per_source[k], keep[k])]
           res == [shard_strings |-> [k \in Sources |-> ShardString(kept[k])],
                   num_samples |-> [k \in Sources |-> SumSeq(nums[k])],
                   next_shard |-> [k \in Sources |-> CommittedCursor(k, kept)]]
       IN  /\ accumulated' = shard_list_per_source
           /\ shard_list_per_source' = kept
           /\ num_samples_per_source' = res.num_samples
           /\ next_shard_per_source' = res.next_shard
           /\ starting_points' = CallerList(res.next_shard)
           /\ result' = res
           /\ history' = Append(history, CallRecord("none", res))
    /\ pc' = "returned"
    /\ UNCHANGED <<manifests, args, total_steps, i, weights,
                   needed_samples_per_source, error, warnings, steps_done,
                   tokens_seen, checkpoints_made>>

\* ---------------------------------------------------------------- training loop
\* The caller of get_string_for_epoch: it passes its cursor list, and after a
\* successful call stores the returned cursors (Commit); restarted from a
\* checkpoint, it goes on with the cursors of that checkpoint (Resume).
TrainCall ==
    /\ pc = "idle"
    /\ Len(history) < MaxCalls
    /\ EnterCall
    /\ UNCHANGED <<manifests, args, total_steps, starting_points, history,
                   steps_done, tokens_seen, checkpoints_made>>

Commit ==
    /\ pc = "returned"
    /\ starting_points' = result.next_shard
    /\ pc' = "idle"
    /\ UNCHANGED <<manifests, args, total_steps, i, weights,
                   needed_samples_per_source, next_shard_per_source,
                   shard_list_per_source, num_samples_per_source, accumulated,
                   result, error, warnings, history, steps_done, tokens_seen,
                   checkpoints_made>>

Resume ==
    /\ pc \in {"returned", "raised"}
    /\ Len(history) < MaxCalls
    /\ \E a \in 1..Len(history) : starting_points' = history[a].start
    /\ pc' = "idle"
    /\ UNCHANGED <<manifests, args, total_steps, i, weights,
                   needed_samples_per_source, next_shard_per_source,
                   shard_list_per_source, num_samples_per_source, accumulated,
                   result, error, warnings, history, steps_done, tokens_seen,
                   checkpoints_made>>

\* ---------------------------------------------------------------- simulator
\* convert_metadata_to_dict: a later record of the same shard name overwrites
convert_metadata_to_dict(manifest) ==
    [id \in {manifest[k].shard : k \in 1..Len(manifest)} |->
        NumSamples(manifest[MaxOf({k \in 1..Len(manifest) :
                                     manifest[k].shard = id})])]

\* braceexpand of a shard string and the file stem of each url; "{}" has no
\* alternatives and stays as it is (BraceLiteral, the name of no shard)
BraceLiteral == 0
ShardIds(shard_string) ==
    IF shard_string.form = "brace" /\ Len(shard_string.ids) = 0
    THEN <<BraceLiteral>>
    ELSE shard_string.ids

\* lines 276-283, for one source: shard i goes to worker i mod num_global_workers
SamplesPerGlobalWorker(counts, num_global_workers) ==
    [w \in 0..(num_global_workers - 1) |->
        SumSeq([j \in 1..Cardinality({k \in 1..Len(counts) :
                                         (k - 1) % num_global_workers = w}) |->
                   counts[w + 1 + (j - 1) * num_global_workers]])]

RECURSIVE SumOver(_, _)
SumOver(f, S) ==
    IF S = {} THEN 0
    ELSE LET x == CHOOSE y \in S : TRUE IN f[x] + SumOver(f, S \ {x})

\* lines 286-287
\* (variant: the samples of all sources are pooled before the division)
BatchesPerGlobalWorkerPooled(samples_per_source, workers, batch) ==
    [w \in 0..(workers - 1) |->
        SumOver([k \in 1..Len(samples_per_source) |->
                    samples_per_source[k][w]],
                1..Len(samples_per_source)) \div batch]

BatchesPerGlobalWorker(samples_per_source, num_global_workers, batch) ==
    [w \in 0..(num_global_workers - 1) |->
        SumOver([k \in 1..Len(samples_per_source) |->
                    samples_per_source[k][w] \div batch],
                1..Len(samples_per_source))]

\* lines 292-295
\* (variant: the workers of one gpu are numbered consecutively)
GpuOfConsecutive(worker_id, world_size) == worker_id \div args.workers

GpuOf(worker_id, world_size) == worker_id % world_size

BatchesPerGpu(batches, num_global_workers, world_size) ==
    [g \in 0..(world_size - 1) |->
        SumOver(batches, {w \in 0..(num_global_workers - 1) :
                             GpuOf(w, world_size) = g})]

\* is_master(args) of open_lm.distributed: what it answers for this process is
\* an input of the run
is_master(a) == a.master

\* (variant: the run goes on from the cursors in scope at the call)
SimInitialCursorsGiven == starting_points

\* line 253
SimInitialCursors == [k \in Sources |-> 0]

\* lines 251-258: log_num_checkpoints(total_steps, args) has no cursor
\* parameter; whatever cursors the run that calls it holds, its own list
\* next_shard_per_source starts at zero
SimEnter ==
    /\ pc = "sim_entry"
    /\ steps_done' = 0
    /\ tokens_seen' = 0
    /\ starting_points' = SimInitialCursors
    /\ checkpoints_made' = 0
    /\ pc' = "idle"
    /\ UNCHANGED <<manifests, args, total_steps, i, weights,
                   needed_samples_per_source, next_shard_per_source,
                   shard_list_per_source, num_samples_per_source, accumulated,
                   result, error, warnings, history>>

SimCall ==
    /\ pc = "idle"
    /\ steps_done < total_steps
    /\ EnterCall
    /\ UNCHANGED <<manifests, args, total_steps, starting_points, history,
                   steps_done, tokens_seen, checkpoints_made>>

\* line 257
num_global_workers == args.world_size * args.workers

\* line 273, on the strings the call returned
shard_ids_per_source ==
    [k \in Sources |-> ShardIds(result.shard_strings[k])]

\* line 274: manifests[i][shard_id] raises KeyError for a name the dict
\* does not hold
LookupFails ==
    \E k \in Sources : \E j \in 1..Len(shard_ids_per_source[k]) :
        shard_ids_per_source[k][j] \notin
            DOMAIN convert_metadata_to_dict(manifests[k])

num_samples_per_shard_per_source ==
    [k \in Sources |->
        [j \in 1..Len(shard_ids_per_source[k]) |->
            convert_metadata_to_dict(manifests[k])[shard_ids_per_source[k][j]]]]

\* lines 276-283
num_samples_per_global_worker_per_source ==
    [k \in Sources |->
        SamplesPerGlobalWorker(num_samples_per_shard_per_source[k],
                               num_global_workers)]

\* lines 286-287
num_batches_per_global_worker ==
    BatchesPerGlobalWorker(num_samples_per_global_worker_per_source,
                           num_global_workers, args.global_batch_size)

\* lines 292-295
num_batches_per_gpu ==
    BatchesPerGpu(num_batches_per_global_worker, num_global_workers,
                  args.world_size)

\* line 298
\* (variant: the gpu with the most batches ends the round)
steps_epoch_of_fastest ==
    MaxOf({num_batches_per_gpu[g] : g \in 0..(args.world_size - 1)})

steps_epoch ==
    MinOf({num_batches_per_gpu[g] : g \in 0..(args.world_size - 1)})

\* (variant: lines 301-302 left out)
ClampNone(steps, total) == steps

Clamp(steps, total) == IF steps > total THEN total ELSE steps

\* lines 264 (the assignment) and 273-304
SimRound ==
    /\ pc = "returned"
    /\ starting_points' = result.next_shard
    /\ IF LookupFails
       THEN /\ pc' = "raised"
            /\ error' = "KeyError"
            /\ UNCHANGED <<steps_done, tokens_seen, checkpoints_made>>
       ELSE LET done == Clamp(steps_done + steps_epoch, total_steps)
            IN  /\ steps_done' = done
                /\ tokens_seen' = done * args.global_batch_size * args.seq_len
                /\ checkpoints_made' = checkpoints_made + 1
                /\ pc' = "idle"
                /\ error' = error
    /\ UNCHANGED <<manifests, args, total_steps, i, weights,
                   needed_samples_per_source, next_shard_per_source,
                   shard_list_per_source, num_samples_per_source, accumulated,
                   result, warnings, history>>

\* lines 309-322
SimFinish ==
    /\ pc = "idle"
    /\ ~(steps_done < total_steps)
    /\ pc' = "finished"
    /\ warnings' = IF is_master(args) /\ checkpoints_made # args.epochs
                   THEN {<<"checkpoints", 0>>} ELSE {}
    /\ UNCHANGED <<manifests, args, total_steps, starting_points, i, weights,
                   needed_samples_per_source, next_shard_per_source,
                   shard_list_per_source, num_samples_per_source, accumulated,
                   result, error, history, steps_done, tokens_seen,
                   checkpoints_made>>

\* ---------------------------------------------------------------- inputs
MixWeights ==
    {[given |-> FALSE, w |-> <<>>]} \cup
    {[given |-> TRUE, w |-> v] : v \in {<<1>>, <<1, 3>>, <<3, 1>>}}

EmptyFrame ==
    /\ i = 0
    /\ weights = <<>>
    /\ needed_samples_per_source = <<>>
    /\ next_shard_per_source = <<>>
    /\ shard_list_per_source = <<>>
    /\ num_samples_per_source = <<>>
    /\ accumulated = <<>>
    /\ result = NoResult
    /\ error = "none"
    /\ warnings = {}
    /\ history = <<>>
    /\ steps_done = 0
    /\ tokens_seen = 0
    /\ checkpoints_made = 0

IdleFrame == pc = "idle" /\ EmptyFrame

TrainArgs(ns, w, wk, ws) ==
    [train_num_samples |-> ns, train_data_mix_weights |-> w, workers |-> wk,
     world_size |-> ws, global_batch_size |-> 1, seq_len |-> 1, epochs |-> 1,
     master |-> TRUE]

\* one source, 10 shards of 100 samples, world_size 2, one worker per gpu,
\* 250 samples wanted, cursor 0
ExampleManifests == <<Manifest([k \in 1..10 |-> 100], "unique")>>
ExampleArgs == TrainArgs(250, [given |-> FALSE, w |-> <<>>], 1, 2)

\* a source with a shard of 1000 samples, one of 10, one at 0.9 * 1000 and
\* one just below
SmallShardManifests == <<Manifest(<<1000, 10, 900, 899>>, "unique")>>
SmallShardArgs == TrainArgs(1000, [given |-> FALSE, w |-> <<>>], 1, 1)

InitTrain ==
    /\ \/ /\ manifests \in ManifestSets({"unique"})
          /\ starting_points \in [1..Len(manifests) -> StartCursors]
          /\ \E ns \in 1..MaxSamples, w \in MixWeights,
                   wk \in WorkerCounts, ws \in WorldSizes :
                 args = TrainArgs(ns, w, wk, ws)
       \/ /\ manifests = ExampleManifests
          /\ starting_points = <<0>>
          /\ args = ExampleArgs
       \/ /\ manifests = SmallShardManifests
          /\ starting_points = <<0>>
          /\ args = SmallShardArgs
    /\ total_steps = 0
    /\ IdleFrame

NextTrain == TrainCall \/ Diagnose \/ Setup \/ LoopTest \/ AppendShard
             \/ Truncate \/ Commit \/ Resume

Spec == InitTrain /\ [][NextTrain]_vars

\* 3 shards of 3000 samples, 1000 steps of 8 sequences of 1024 tokens
SimExampleManifests == <<Manifest([k \in 1..3 |-> 3000], "unique")>>
SimExampleArgs ==
    [train_num_samples |-> 3000,
     train_data_mix_weights |-> [given |-> FALSE, w |-> <<>>], workers |-> 1,
     world_size |-> 1, global_batch_size |-> 8, seq_len |-> 1024, epochs |-> 3,
     master |-> TRUE]

InitSim ==
    /\ \/ /\ manifests \in ManifestSets(IdSchemes)
          /\ \E ns \in 1..MaxSamples, w \in MixWeights,
                   wk \in WorkerCounts, ws \in WorldSizes, b \in BatchSizes,
                   sl \in SeqLens, ep \in EpochCounts, r \in BOOLEAN :
                 args = [train_num_samples |-> ns,
                         train_data_mix_weights |-> w, workers |-> wk,
                         world_size |-> ws, global_batch_size |-> b,
                         seq_len |-> sl, epochs |-> ep, master |-> r]
          /\ total_steps \in 1..MaxSteps
       \/ /\ manifests = SimExampleManifests
          /\ args = SimExampleArgs
          /\ total_steps = 1000
    /\ starting_points \in {[k \in Sources |-> c] : c \in StartCursors}
    /\ pc = "sim_entry"
    /\ EmptyFrame

NextSim == SimEnter \/ SimCall \/ Diagnose \/ Setup \/ LoopTest \/ AppendShard
           \/ Truncate \/ SimRound \/ SimFinish

SpecSim == InitSim /\ [][NextSim]_vars

\* ---------------------------------------------------------------- properties
\* the shard list a successful call returned for source k
Returned(k) == result.shard_strings[k].ids

\* the sample count the manifest of source k records at 0-based position c
ManifestCount(k, c) == NumSamples(manifests[k][c + 1])

PutBack(k) == Len(accumulated[k]) - Len(Returned(k))

\* C1: after a successful call the returned shard list of every source has
\* length total_workers * floor(accumulated / total_workers): a multiple of
\* total_workers, a prefix of the accumulated list (shards are dropped from
\* the tail, none is added), with fewer than total_workers shards dropped.
C1_TruncatedToWorkerMultiple ==
    pc = "returned" =>
        \A k \in Sources :
            /\ Len(Returned(k)) =
                   total_num_workers * (Len(accumulated[k]) \div total_num_workers)
            /\ Len(Returned(k)) % total_num_workers = 0
            /\ Len(Returned(k)) <= Len(accumulated[k])
            /\ Returned(k) = SubSeq(accumulated[k], 1, Len(Returned(k)))
            /\ PutBack(k) < total_num_workers

C1_Witness ==
    /\ pc = "returned"
    /\ total_num_workers > 1
    /\ \E k \in Sources : PutBack(k) > 0 /\ Len(Returned(k)) > 0

\* C2: after a successful call the returned cursor of every source is the
\* starting cursor plus the number of shards kept after truncation (not the
\* number accumulated), and it is not smaller than the starting cursor.
C2_CursorCommitsKeptShards ==
    pc = "returned" =>
        \A k \in Sources :
            /\ result.next_shard[k] = starting_points[k] + Len(Returned(k))
            /\ result.next_shard[k] >= starting_points[k]

C2_Witness ==
    /\ pc = "returned"
    /\ \E k \in Sources :
          /\ starting_points[k] > 0
          /\ PutBack(k) > 0
          /\ result.next_shard[k] < starting_points[k] + Len(accumulated[k])

\* call b of the history was given the cursors call a returned
Threaded(a, b) ==
    /\ b = a + 1
    /\ history[a].error = "none"
    /\ history[b].error = "none"
    /\ history[b].start = history[a].result.next_shard

\* calls a..b of the history form a chain of successful calls, each given the
\* cursors the one before it returned
Chain(a, b) == a <= b /\ \A m \in a..(b - 1) : Threaded(m, m + 1)

ManifestNames(k, from, to) ==
    [j \in 1..(to - from) |-> manifests[k][from + j].shard]

\* C3: in a chain of successful calls, each started from the cursors the one
\* before returned, the shards a call returns for a source are the manifest
\* entries at positions [its starting cursor, its returned cursor), in
\* manifest order; a later call of the chain starts where the earlier one
\* ended or after it, so no position is allocated twice and none is skipped;
\* and the shards put back by one call are the first offered to the next.
C3_CursorRangesPartitionManifest ==
    \A a \in 1..Len(history) :
        history[a].error = "none" =>
            \A k \in Sources :
                LET h == history[a]
                    kept == h.result.shard_strings[k].ids
                IN  /\ h.start[k] <= h.result.next_shard[k]
                    /\ h.result.next_shard[k] <= Len(manifests[k])
                    /\ kept = ManifestNames(k, h.start[k], h.result.next_shard[k])
                    /\ \A b \in (a + 1)..Len(history) :
                          Chain(a, b) =>
                              history[b].start[k] >= h.result.next_shard[k]
                    /\ a < Len(history) /\ Threaded(a, a + 1) =>
                          LET put == SubSeq(h.offered[k], Len(kept) + 1,
                                            Len(h.offered[k]))
                              nxt == history[a + 1].offered[k]
                          IN  \A j \in 1..Len(put) :
                                  j <= Len(nxt) => nxt[j] = put[j]

C3_Witness ==
    /\ Len(history) >= 3
    /\ Chain(1, 3)
    /\ \E k \in Sources :
          Len(history[1].offered[k]) >
              Len(history[1].result.shard_strings[k].ids)

\* C4: after a successful call the sample total reported for a source is the
\* sum of the manifest counts of the shards that remain in the returned list:
\* every kept shard once, no put-back shard.
C4_SampleTotalOfKeptShards ==
    pc = "returned" =>
        \A k \in Sources :
            result.num_samples[k] =
                SumSeq([j \in 1..Len(Returned(k)) |->
                           ManifestCount(k, starting_points[k] + j - 1)])

C4_Witness ==
    /\ pc = "returned"
    /\ \E k \in Sources :
          /\ PutBack(k) > 0
          /\ Len(Returned(k)) > 1
          /\ starting_points[k] > 0

\* C5: a call fails with the exhaustion error exactly at a step of a round
\* (entered because the stop condition did not hold) in which the cursor of
\* the source being served is at or past the end of its manifest, and at no
\* other step; a shard at the last position of a manifest is still served.
C5_ExhaustionAtTheAccess ==
    [][(error' = "IndexError" /\ error # "IndexError") <=>
       (pc = "append" /\ next_shard_per_source[i] >= Len(manifests[i]))]_vars

C5_Witness ==
    /\ pc = "returned"
    /\ \E k \in Sources :
          /\ Len(manifests[k]) = 3
          /\ starting_points[k] + Len(accumulated[k]) = Len(manifests[k])

\* C6: two calls given the same starting cursors (the manifests, weights,
\* worker counts and sample target are those of the run) end the same way:
\* the same shard lists, sample totals and returned cursors, or the same
\* error, whatever calls came before them.
C6_Deterministic ==
    \A a, b \in 1..Len(history) :
        history[a].start = history[b].start => history[a] = history[b]

C6_Witness ==
    /\ Len(history) >= 3
    /\ history[3].start = history[1].start
    /\ history[2].start # history[1].start
    /\ history[3].error = "none"

IsExample ==
    /\ manifests = ExampleManifests
    /\ args = ExampleArgs
    /\ starting_points = <<0>>

\* C7: one source of 10 shards of 100 samples, world_size 2, one worker per
\* gpu, 250 samples wanted, cursor 0: the loop stops with 3 shards (300
\* samples), 2 are kept, the reported total is 200, one shard is put back and
\* the returned cursor is 2.
C7_Example ==
    IsExample =>
        /\ pc = "truncate" =>
              /\ Len(shard_list_per_source[1]) = 3
              /\ SumSeq(num_samples_per_source[1]) = 300
        /\ pc = "returned" =>
              /\ Len(accumulated[1]) = 3
              /\ Len(Returned(1)) = 2
              /\ result.num_samples = <<200>>
              /\ PutBack(1) = 1
              /\ result.next_shard = <<2>>

C7_Witness == IsExample /\ pc = "returned" /\ Len(history) = 1

CheckpointWarning == <<"checkpoints", 0>> \in warnings

RunTotals ==
    /\ steps_done = total_steps
    /\ tokens_seen = total_steps * args.global_batch_size * args.seq_len

WellFormedWeights ==
    args.train_data_mix_weights.given =>
        Len(args.train_data_mix_weights.w) = num_sources

\* C9 (what a finite run can show of it): with one weight per source, the
\* accumulation loop appends no more shards than a manifest has and the
\* simulator loop runs no more rounds than the shortest manifest has shards,
\* and a call or run that fails fails with the exhaustion error only.
C9_ExhaustionOnlyFailure ==
    WellFormedWeights =>
        /\ \A k \in DOMAIN shard_list_per_source :
              Len(shard_list_per_source[k]) <= Len(manifests[k])
        /\ checkpoints_made <= MinOf({Len(manifests[k]) : k \in Sources})
        /\ pc = "raised" => error = "IndexError"

\* The loop bounds of C9 with the failure of the diagnostics on a manifest
\* without shards set aside: the only other failure is exhaustion.
LoopsBounded ==
    WellFormedWeights =>
        /\ \A k \in DOMAIN shard_list_per_source :
              Len(shard_list_per_source[k]) <= Len(manifests[k])
        /\ checkpoints_made <= MinOf({Len(manifests[k]) : k \in Sources})
        /\ pc = "raised" =>
              \/ error = "IndexError"
              \/ error = "ValueError" /\ \E k \in Sources : Len(manifests[k]) = 0

\* C10: the diagnostics only warn: the step that runs them always goes on to
\* the allocation and changes nothing but the warnings logged, so a call ends
\* as it would without them.
C10_DiagnosticsAdvisory ==
    [][pc = "diag" =>
          /\ pc' = "setup"
          /\ error' = error
          /\ UNCHANGED <<starting_points, next_shard_per_source,
                         shard_list_per_source, num_samples_per_source,
                         result, history>>]_vars

NoShardTaken ==
    /\ \A k \in DOMAIN shard_list_per_source : shard_list_per_source[k] = <<>>
    /\ \A a \in 1..Len(history) :
          /\ history[a].result = NoResult
          /\ \A k \in DOMAIN history[a].offered : history[a].offered[k] = <<>>

\* C11 as stated: with a weight vector whose length is not the number of
\* sources, a call never enters the accumulation loop, appends no shard,
\* returns no cursor and ends with the configuration error (the failed
\* assertion of line 433); without weights the sources are weighted
\* uniformly and that error does not occur.
C11_WeightMismatchIsConfigError ==
    /\ ~WellFormedWeights =>
          /\ pc \in {"idle", "diag", "setup", "raised"}
          /\ NoShardTaken
          /\ pc = "raised" => error = "AssertionError"
    /\ ~args.train_data_mix_weights.given =>
          /\ error # "AssertionError"
          /\ pc \in {"loop", "append", "truncate", "returned"} =>
                /\ weights = UniformWeights(num_sources)
                /\ \A k \in Sources :
                      needed_samples_per_source[k] =
                          CeilDiv(args.train_num_samples, num_sources)

\* What holds of C11: the same, except that on a manifest without shards
\* the diagnostics, which run before the weights are looked at, end the call
\* with their ValueError first.
WeightMismatchFailsBeforeAllocation ==
    /\ ~WellFormedWeights =>
          /\ pc \in {"idle", "diag", "setup", "raised"}
          /\ NoShardTaken
          /\ pc = "raised" =>
                \/ error = "AssertionError"
                \/ error = "ValueError" /\ \E k \in Sources : Len(manifests[k]) = 0
    /\ ~args.train_data_mix_weights.given =>
          /\ error # "AssertionError"
          /\ pc \in {"loop", "append", "truncate", "returned"} =>
                weights = UniformWeights(num_sources)

\* the number of entries of sz strictly below num / den of bound
RECURSIVE CountBelow(_, _, _, _)
CountBelow(sz, num, den, bound) ==
    IF sz = <<>> THEN 0
    ELSE (IF den * sz[1] < num * bound THEN 1 ELSE 0)
         + CountBelow(Tail(sz), num, den, bound)

\* the largest entry of a non-empty sz: an entry no other entry exceeds
Largest(sz) ==
    CHOOSE m \in {sz[k] : k \in 1..Len(sz)} :
        \A k \in 1..Len(sz) : sz[k] <= m

DiagnosticsDone == pc \in {"setup", "loop", "append", "truncate", "returned"}

\* C12: for every manifest with at least one shard, count_small_shards
\* (ratio 0.9) is the number of shards whose sample count is strictly below
\* 0.9 times the largest sample count of that manifest: a shard of 10 next to
\* one of 1000 is counted, a shard as large as the largest is not, nor is one
\* at exactly 0.9 times the largest; and the call warns about a source
\* exactly when that number is positive.
C12_SmallShardCount ==
    \A k \in Sources :
        Len(manifests[k]) > 0 =>
            LET sz == ShardSizes(manifests[k])
                n == count_small_shards(manifests[k])
            IN  /\ n = CountBelow(sz, 9, 10, Largest(sz))
                /\ n <= Len(sz) - Cardinality({j \in 1..Len(sz) :
                                                  sz[j] = Largest(sz)})
                /\ n < Len(sz)
                /\ (\E j \in 1..Len(sz) : 100 * sz[j] = Largest(sz)) => n > 0
                /\ manifests = SmallShardManifests => n = 2
                /\ DiagnosticsDone =>
                      (<<"small_shards", k>> \in warnings <=> n > 0)

C12_Witness ==
    /\ manifests = SmallShardManifests
    /\ pc = "setup"
    /\ <<"small_shards", 1>> \in warnings

\* the weights a call works with: those supplied, or one per source
EffectiveWeights ==
    IF args.train_data_mix_weights.given
    THEN args.train_data_mix_weights.w
    ELSE [k \in Sources |-> 1]

\* ceil(weight[k] * num_samples / sum(weights)): the least integer q with
\* q * sum(weights) >= weight[k] * num_samples
QuotaOf(k) ==
    LET w == EffectiveWeights
        target == w[k] * args.train_num_samples
    IN  CHOOSE q \in 0..target :
            /\ q * SumSeq(w) >= target
            /\ \A r \in 0..(q - 1) : r * SumSeq(w) < target

\* the samples of the n shards of source k from its starting cursor on
SamplesFrom(k, n) ==
    SumSeq([j \in 1..n |-> ManifestCount(k, starting_points[k] + j - 1)])

\* n rounds satisfy both stop conditions for every source
RoundsSuffice(n) ==
    /\ n >= total_num_workers
    /\ \A k \in Sources :
          /\ starting_points[k] + n <= Len(manifests[k])
          /\ SamplesFrom(k, n) >= QuotaOf(k)

Ranks == 0..(args.world_size - 1)
LoaderIndexes == 0..(args.workers - 1)

\* a round of the simulator is about to project the allocation just returned
Projecting == pc = "returned" /\ ~LookupFails

\* C14 as stated: global workers are numbered rank * workers_per_gpu +
\* loader_index (the loader index varies fastest, the rank slowest), and the
\* gpu credited with the batches of a global worker, global_worker_id mod
\* world_size, is the rank that owns the worker under this numbering.
C14_RankSlowestOwnership ==
    /\ \A r \in Ranks, l \in LoaderIndexes :
          GpuOf(r * args.workers + l, args.world_size) = r
    /\ Projecting =>
          \A r \in Ranks :
              num_batches_per_gpu[r] =
                  SumOver([l \in LoaderIndexes |->
                              num_batches_per_global_worker[r * args.workers + l]],
                          LoaderIndexes)

\* C14 as amended: the gpu credited with the batches of a global worker is
\* global_worker_id mod world_size, which is the owning rank when global
\* workers are numbered loader_index * world_size + rank (the rank varies
\* fastest, the loader index slowest); every global worker is credited to
\* exactly one rank and a gpu's batches are the sum over its workers.
C14_RankFastestOwnership ==
    /\ \A r \in Ranks, l \in LoaderIndexes :
          /\ l * args.world_size + r \in 0..(num_global_workers - 1)
          /\ GpuOf(l * args.world_size + r, args.world_size) = r
    /\ \A w \in 0..(num_global_workers - 1) :
          \E r \in Ranks, l \in LoaderIndexes : w = l * args.world_size + r
    /\ Projecting =>
          \A r \in Ranks :
              num_batches_per_gpu[r] =
                  SumOver([l \in LoaderIndexes |->
                              num_batches_per_global_worker[
                                  l * args.world_size + r]],
                          LoaderIndexes)

C14_Witness ==
    /\ Projecting
    /\ args.world_size = 2
    /\ args.workers = 2
    /\ num_batches_per_gpu[0] #
           num_batches_per_global_worker[0] + num_batches_per_global_worker[1]
    /\ num_batches_per_gpu[0] # num_batches_per_gpu[1]

\* the samples of source k that fall to global worker w: the counts of the
\* shards at positions w, w + G, w + 2G, ... (0-based) of the allocation
AssignedSamples(k, w) ==
    LET counts == num_samples_per_shard_per_source[k]
    IN  SumOver(counts, {j \in 1..Len(counts) :
                            (j - 1) % num_global_workers = w})

AssignedTotal(w) ==
    SumOver([k \in Sources |-> AssignedSamples(k, w)], Sources)

\* C15 as stated: the batch count of a global worker is the floor of all the
\* samples assigned to it, over all sources together, divided by
\* global_batch_size.
C15_BatchesOfPooledSamples ==
    Projecting =>
        \A w \in 0..(num_global_workers - 1) :
            num_batches_per_global_worker[w] =
                AssignedTotal(w) \div args.global_batch_size

\* C15 as amended: the batch count of a global worker is the sum over the
\* sources of floor(samples of that source assigned to the worker /
\* global_batch_size); with one source this is the floor of the worker's
\* total, with more it can be less and is never more.
C15_BatchesPerSourceThenSummed ==
    Projecting =>
        \A w \in 0..(num_global_workers - 1) :
            /\ num_batches_per_global_worker[w] =
                   SumOver([k \in Sources |->
                               AssignedSamples(k, w) \div args.global_batch_size],
                           Sources)
            /\ num_batches_per_global_worker[w] <=
                   AssignedTotal(w) \div args.global_batch_size
            /\ num_sources = 1 =>
                   num_batches_per_global_worker[w] =
                       AssignedTotal(w) \div args.global_batch_size

C15_Witness ==
    /\ Projecting
    /\ num_sources = 2
    /\ \E w \in 0..(num_global_workers - 1) :
          /\ num_batches_per_global_worker[w] > 0
          /\ num_batches_per_global_worker[w] <
                 AssignedTotal(w) \div args.global_batch_size

\* the allocation calls of the run that returned
SuccessfulCalls == {a \in 1..Len(history) : history[a].error = "none"}

\* the rounds of the simulator loop completed so far: an allocation that
\* has returned belongs to a round still under way
RoundsCompleted ==
    Cardinality(SuccessfulCalls) - (IF pc = "returned" THEN 1 ELSE 0)

\* the batches of the gpu that has the fewest
SlowestGpuBatches ==
    CHOOSE m \in {num_batches_per_gpu[r] : r \in Ranks} :
        \A r \in Ranks : m <= num_batches_per_gpu[r]

SimTotalsInvariant ==
    /\ 0 <= steps_done
    /\ steps_done <= total_steps
    /\ tokens_seen = steps_done * args.global_batch_size * args.seq_len
    /\ checkpoints_made = RoundsCompleted

\* a step of the simulator that ends a round
RoundEnds == pc = "returned" /\ pc' = "idle"

SimRoundStep ==
    /\ RoundEnds =>
          /\ steps_done' =
                 (IF steps_done + SlowestGpuBatches < total_steps
                  THEN steps_done + SlowestGpuBatches ELSE total_steps)
          /\ tokens_seen' = steps_done' * args.global_batch_size * args.seq_len
          /\ checkpoints_made' = checkpoints_made + 1
    /\ (pc = "idle" /\ pc' = "diag") => steps_done < total_steps
    /\ (pc = "idle" /\ pc' = "finished") => ~(steps_done < total_steps)
    /\ (pc = "idle" /\ pc' # "idle") => pc' \in {"diag", "finished"}

\* C16: a round of the simulator loop sets steps_done to the smaller of
\* total_steps and the previous steps_done plus the fewest batches any gpu
\* has in that round; at all times 0 <= steps_done <= total_steps,
\* tokens_seen = steps_done * global_batch_size * seq_len and checkpoints_made
\* is the number of rounds completed; after a round the loop goes on to
\* another allocation if steps_done < total_steps and ends otherwise.
C16_RoundAccounting == []SimTotalsInvariant /\ [][SimRoundStep]_vars

C16_Witness ==
    /\ pc = "idle"
    /\ args.world_size = 2
    /\ checkpoints_made = 2
    /\ steps_done > 0
    /\ steps_done < total_steps

\* every allocation of the run after the first was given the cursors the
\* one before it returned
RoundsThreaded ==
    \A a \in 2..Len(history) :
        /\ history[a - 1].error = "none"
        /\ history[a].start = history[a - 1].result.next_shard

\* an allocation that returned consumed the manifest positions from its
\* starting cursor up to the cursor it returned
ConsumesFromStart ==
    \A a \in SuccessfulCalls : \A k \in Sources :
        history[a].result.shard_strings[k].ids =
            ManifestNames(k, history[a].start[k], history[a].result.next_shard[k])

\* C17 as stated: the simulator keeps the cursors the calling run holds when
\* it starts, so its first allocation starts from them; every later
\* allocation starts from the cursors the one before returned.
C17_StartsFromGivenCursors ==
    /\ [][pc = "sim_entry" => starting_points' = starting_points]_vars
    /\ [](RoundsThreaded /\ ConsumesFromStart)

\* C17 as amended: whatever cursors the calling run holds, the simulator's
\* first allocation starts from cursor 0 of every source; every later
\* allocation starts from the cursors the one before returned, so the
\* simulated checkpoints consume the manifest positions of a training run
\* started at the beginning of the manifests.
C17_StartsFromZero ==
    /\ [][pc = "sim_entry" =>
             starting_points' = [k \in Sources |-> 0]]_vars
    /\ [](/\ Len(history) >= 1 =>
                history[1].start = [k \in Sources |-> 0]
          /\ pc \in {"diag", "setup", "loop", "append", "truncate", "returned"}
                /\ Len(history) = 0 =>
                    starting_points = [k \in Sources |-> 0]
          /\ RoundsThreaded
          /\ ConsumesFromStart)

C17_Witness ==
    /\ pc = "returned"
    /\ Len(history) = 2
    /\ history[1].start = [k \in Sources |-> 0]
    /\ history[2].start = history[1].result.next_shard
    /\ history[2].start # history[1].start
    /\ history[2].result.next_shard # history[2].start

\* source k has, by itself, enough shards and enough samples
MeetsOwnConditions(k) ==
    /\ Len(shard_list_per_source[k]) >= total_num_workers
    /\ SumSeq(num_samples_per_source[k]) >= needed_samples_per_source[k]

LockStepInvariant ==
    /\ pc \in {"loop", "truncate"} =>
          \A j, k \in Sources :
              Len(shard_list_per_source[j]) = Len(shard_list_per_source[k])
    /\ pc = "append" =>
          \A j, k \in Sources :
              Len(shard_list_per_source[j]) =
                  Len(shard_list_per_source[k])
                      + (IF j < i /\ k >= i THEN 1 ELSE 0)
                      - (IF k < i /\ j >= i THEN 1 ELSE 0)
    /\ pc = "returned" =>
          \A j, k \in Sources :
              /\ Len(accumulated[j]) = Len(accumulated[k])
              /\ Len(Returned(j)) = Len(Returned(k))
              /\ result.next_shard[j] - starting_points[j] =
                     result.next_shard[k] - starting_points[k]
              /\ Len(Returned(k)) =
                     total_num_workers *
                         (Len(accumulated[j]) \div total_num_workers)

\* a step of a round serves the source whose turn it is whether or not that
\* source already meets its own conditions: it appends its next shard, or
\* fails the call when the source has none left
LockStepStep ==
    pc = "append" =>
        IF next_shard_per_source[i] >= Len(manifests[i])
        THEN pc' = "raised" /\ error' = "IndexError"
        ELSE Len(shard_list_per_source'[i]) = Len(shard_list_per_source[i]) + 1

\* C18: in a call every source goes through the same rounds: a successful
\* call with several sources returns the same number of shards for every
\* source and advances every cursor by the same amount, whatever the weights
\* and shard sizes, truncation being a function of the common length alone;
\* and a source without a next shard fails the call even if it already has
\* its own share of shards and samples.
C18_SourcesInLockStep == []LockStepInvariant /\ [][LockStepStep]_vars

C18_Witness ==
    /\ pc = "raised"
    /\ error = "IndexError"
    /\ num_sources = 2
    /\ MeetsOwnConditions(i)
    /\ Len(history) = 2
    /\ history[1].error = "none"
    /\ history[1].result.num_samples[1] # history[1].result.num_samples[2]
    /\ weights[1] # weights[2]

InCall == pc \in {"diag", "setup", "loop", "append", "truncate"}

\* the cursors the caller holds when a call has ended are those it passed
CallerCursorsKept ==
    /\ pc \in {"returned", "raised"} =>
          starting_points = history[Len(history)].start
    /\ pc = "returned" =>
          \A k \in Sources :
              result.next_shard[k] = starting_points[k] + Len(Returned(k))
    /\ \A a \in 1..(Len(history) - 1) :
          (history[a].error = "IndexError"
               /\ history[a + 1].start = history[a].start) =>
              history[a + 1] = history[a]

\* C19: no step of an allocation call changes the cursor list the caller
\* passed: after a successful call the new cursors are in the returned value
\* only, and after a call that failed with the exhaustion error (shards of
\* the failing round appended or not) the caller still holds the cursors it
\* passed, and the same call made again fails in the same way.
C19_CallerCursorsUntouched ==
    /\ [][InCall => starting_points' = starting_points]_vars
    /\ []CallerCursorsKept

C19_Witness ==
    /\ pc = "raised"
    /\ error = "IndexError"
    /\ num_sources = 2
    /\ i = 2
    /\ Len(shard_list_per_source[1]) = Len(shard_list_per_source[2]) + 1
    /\ Len(shard_list_per_source[2]) > 0
    /\ Len(history) = 3
    /\ history[1].error = "none"
    /\ history[2].error = "IndexError"
    /\ history[3] = history[2]

\* C20: with at least one gpu and one worker per gpu, a successful call
\* returns at least total_workers shards for every source, never an empty
\* list, so it advances every cursor by at least total_workers; after a
\* chain of k successful calls, each started where the one before ended,
\* every cursor is at least k * total_workers beyond where the chain started
\* and not beyond the end of the manifest.
C20_ProgressPerCall ==
    /\ total_num_workers >= 1
    /\ pc = "returned" =>
          \A k \in Sources :
              /\ Len(Returned(k)) >= total_num_workers
              /\ Returned(k) # <<>>
              /\ result.next_shard[k] >= starting_points[k] + total_num_workers
              /\ result.next_shard[k] > starting_points[k]
    /\ \A a, b \in 1..Len(history) :
          Chain(a, b) /\ history[a].error = "none" =>
              \A k \in Sources :
                  /\ history[b].result.next_shard[k] >=
                         history[a].start[k] + (b - a + 1) * total_num_workers
                  /\ history[b].result.next_shard[k] <= Len(manifests[k])

C20_Witness ==
    /\ pc = "returned"
    /\ total_num_workers = 2
    /\ Len(history) = 2
    /\ Chain(1, 2)
    /\ \E k \in Sources :
          /\ history[2].result.next_shard[k] = history[1].start[k] + 4
          /\ history[2].result.next_shard[k] = Len(manifests[k])

\* the samples of source k the simulator spreads over the global workers
DistributedSamples(k) ==
    SumOver(num_samples_per_global_worker_per_source[k],
            0..(num_global_workers - 1))

\* no shard name occurs at two positions of the manifest of source k
UniqueShardNames(k) ==
    \A a, b \in 1..Len(manifests[k]) :
        manifests[k][a].shard = manifests[k][b].shard => a = b

\* C21 as stated: in every round and for every source, the sample counts
\* the simulator looks up by shard name and spreads over the global workers
\* sum to the sample total the allocator reported for that allocation, also
\* when a shard name occurs at several positions with different counts.
C21_SimulatorCountsAllocatorTotal ==
    Projecting =>
        \A k \in Sources :
            /\ SumSeq(num_samples_per_shard_per_source[k]) =
                   result.num_samples[k]
            /\ DistributedSamples(k) = result.num_samples[k]

\* What holds of C21: the two totals agree for every source whose manifest
\* names each shard once; the workers always receive exactly the counts
\* looked up; and no lookup fails.
CountsAgreeOnUniqueNames ==
    /\ pc = "returned" => ~LookupFails
    /\ Projecting =>
          \A k \in Sources :
              /\ DistributedSamples(k) =
                     SumSeq(num_samples_per_shard_per_source[k])
              /\ UniqueShardNames(k) =>
                     DistributedSamples(k) = result.num_samples[k]
====
